---- MODULE Spec2Model ----
(***************************************************************************)
(* Gemstone price prediction: the FastAPI service (src/app/main.py), the   *)
(* inference pipeline it calls (src/pipeline/predict_pipeline.py, which is *)
(* modelled from the specification) and the Streamlit client               *)
(* (src/streamlit_app.py).                                                 *)
(*                                                                         *)
(* Numbers: the six numeric fields are held in tenths (carat 0.2 is 2),    *)
(* the model's raw output in thousandths of a dollar and the rounded       *)
(* price of a response in hundredths.  A numeric field that is NaN or an   *)
(* infinity is named in the record's "nonfinite" set.                      *)
(***************************************************************************)
EXTENDS Integers, Sequences, FiniteSets, TLC

VARIABLES storage, artifactPair, loadState, modelReads, encoderReads, acqAttempts, pending, nArrived, served, last, waitingAtLoad, optionsResp, clientPc, clientResult, clientDisplay, clientPosts, clientOutcome, reply

vars == <<storage, artifactPair, loadState, modelReads, encoderReads, acqAttempts, pending, nArrived, served, last, waitingAtLoad, optionsResp, clientPc, clientResult, clientDisplay, clientPosts, clientOutcome, reply>>

\* ------------------------------------------------------------ bounds

\* Requests (API calls and button presses together) the process receives.
MaxRequests == 2

\* Requests accepted by the server and not yet handled.
MaxPending == 2

\* ----------------------------------------------------------- helpers

Range(s) == {s[i] : i \in DOMAIN s}

IndexOf(s, v) == CHOOSE i \in DOMAIN s : s[i] = v

NumericFields == {"carat", "depth", "table", "x", "y", "z"}

\* ------------------------------------------- service: src/app/main.py

\* The request body type: six floats and three strings, no range and no
\* enumeration constraint.
GemstoneData(b) ==
    /\ DOMAIN b = {"carat", "depth", "table", "x", "y", "z", "cut", "color", "clarity", "nonfinite"}
    /\ \A f \in NumericFields : b[f] \in Int
    /\ b.nonfinite \subseteq NumericFields
    /\ \A f \in {"cut", "color", "clarity"} : b[f] \in STRING

\* The documented example body.
ExampleBody ==
    [carat |-> 15, depth |-> 625, table |-> 580, x |-> 72, y |-> 71, z |-> 45,
     cut |-> "Ideal", color |-> "G", clarity |-> "VS1", nonfinite |-> {}]

\* GET /options, as drifted from the client's lists.
get_options_drifted ==
    [cut |-> <<"Fair", "Good", "Very Good", "Premium", "Ideal", "Excellent">>,
     color |-> <<"D", "E", "F", "G", "H", "I", "J">>,
     clarity |-> <<"I1", "SI2", "SI1", "VS2", "VS1", "VVS2", "VVS1", "IF">>]

\* GET /options.
get_options ==
    [cut |-> <<"Fair", "Good", "Very Good", "Premium", "Ideal">>,
     color |-> <<"D", "E", "F", "G", "H", "I", "J">>,
     clarity |-> <<"I1", "SI2", "SI1", "VS2", "VS1", "VVS2", "VVS1", "IF">>]

\* ---------------------------- pipeline: modelled from the specification

NoError == [kind |-> "none", text |-> ""]

ArtifactLoadError == [kind |-> "ArtifactLoadError", text |-> "artifact storage unreachable"]

InvalidInputError == [kind |-> "InvalidInputError", text |-> "numeric field negative or not finite"]

UnknownCategoryError == [kind |-> "UnknownCategoryError", text |-> "unknown category"]

InferenceError == [kind |-> "InferenceError", text |-> "feature vector shape mismatch"]

InputDefects == {"InvalidInputError", "UnknownCategoryError"}

SystemDefects == {"ArtifactLoadError", "InferenceError"}

ErrorClass(kind) == IF kind \in InputDefects THEN "input" ELSE IF kind \in SystemDefects THEN "system" ELSE "none"

\* The Raw Record built from the request body, field by field.
CustomData(g) ==
    [carat |-> g.carat, depth |-> g.depth, table |-> g.table, x |-> g.x, y |-> g.y, z |-> g.z,
     cut |-> g.cut, color |-> g.color, clarity |-> g.clarity, nonfinite |-> g.nonfinite]

\* A one-row frame holding the record.
get_data_as_dataframe(data) == <<data>>

\* The Encoder Artifact's stored categories, in their ordinal order.
EncoderCut == <<"Fair", "Good", "Very Good", "Premium", "Ideal">>

EncoderColor == <<"J", "I", "H", "G", "F", "E", "D">>

EncoderClarity == <<"I1", "SI2", "SI1", "VS2", "VS1", "VVS2", "VVS1", "IF">>

\* The Encoder Artifact's stored scaling: subtract the mean, divide by the scale.
Scale(f, v) ==
    CASE f = "carat" -> ((v - 8) * 10) \div 5
      [] f = "depth" -> ((v - 617) * 10) \div 14
      [] f = "table" -> ((v - 575) * 10) \div 22
      [] f = "x" -> ((v - 57) * 10) \div 11
      [] f = "y" -> ((v - 57) * 10) \div 11
      [] f = "z" -> ((v - 35) * 10) \div 7

NumericValid(r) == \A f \in NumericFields : f \notin r.nonfinite /\ r[f] >= 0

CategoriesKnown(r) ==
    /\ r.cut \in Range(EncoderCut)
    /\ r.color \in Range(EncoderColor)
    /\ r.clarity \in Range(EncoderClarity)

\* An encoder that maps an unseen category to a default code.
encode_defaulting(r) ==
    IF ~NumericValid(r) THEN [ok |-> FALSE, err |-> InvalidInputError, fv |-> <<>>]
    ELSE [ok |-> TRUE, err |-> NoError,
          fv |-> <<Scale("carat", r.carat), Scale("depth", r.depth), Scale("table", r.table),
                   Scale("x", r.x), Scale("y", r.y), Scale("z", r.z),
                   IF r.cut \in Range(EncoderCut) THEN IndexOf(EncoderCut, r.cut) ELSE 1,
                   IF r.color \in Range(EncoderColor) THEN IndexOf(EncoderColor, r.color) ELSE 1,
                   IF r.clarity \in Range(EncoderClarity) THEN IndexOf(EncoderClarity, r.clarity) ELSE 1>>]

\* An encoder that scales whatever number it is given.
encode_unchecked(r) ==
    IF ~CategoriesKnown(r) THEN [ok |-> FALSE, err |-> UnknownCategoryError, fv |-> <<>>]
    ELSE [ok |-> TRUE, err |-> NoError,
          fv |-> <<Scale("carat", r.carat), Scale("depth", r.depth), Scale("table", r.table),
                   Scale("x", r.x), Scale("y", r.y), Scale("z", r.z),
                   IndexOf(EncoderCut, r.cut), IndexOf(EncoderColor, r.color),
                   IndexOf(EncoderClarity, r.clarity)>>]

\* Feature Encoder: encode(record) -> FeatureVector, or the input defect.
encode(r) ==
    IF ~NumericValid(r) THEN [ok |-> FALSE, err |-> InvalidInputError, fv |-> <<>>]
    ELSE IF ~CategoriesKnown(r) THEN [ok |-> FALSE, err |-> UnknownCategoryError, fv |-> <<>>]
    ELSE [ok |-> TRUE, err |-> NoError,
          fv |-> <<Scale("carat", r.carat), Scale("depth", r.depth), Scale("table", r.table),
                   Scale("x", r.x), Scale("y", r.y), Scale("z", r.z),
                   IndexOf(EncoderCut, r.cut), IndexOf(EncoderColor, r.color),
                   IndexOf(EncoderClarity, r.clarity)>>]

\* A model whose output drifts with the number of requests served.
ModelArtifact_stateful(fv) ==
    3932615 + 4137 * fv[1] - 93 * fv[2] - 61 * fv[3] + 517 * fv[4] + 211 * fv[5] + 103 * fv[6]
      + 72005 * fv[7] + 135005 * fv[8] + 201005 * fv[9] + 1000 * Cardinality(served)

\* The Model Artifact: a fixed function from the Feature Vector to the price.
ModelArtifact(fv) ==
    3932615 + 4137 * fv[1] - 93 * fv[2] - 61 * fv[3] + 517 * fv[4] + 211 * fv[5] + 103 * fv[6]
      + 72005 * fv[7] + 135005 * fv[8] + 201005 * fv[9]

\* An acquisition that reads the artifacts on every call.
Acquire_every_call(ls, st) ==
    IF st = "reachable" THEN [ok |-> TRUE, state |-> "Loaded", reads |-> 1, attempts |-> 1]
    ELSE [ok |-> FALSE, state |-> ls, reads |-> 0, attempts |-> 1]

\* An acquisition that remembers a failure and never tries again.
Acquire_poisoned(ls, st) ==
    IF ls = "Loaded" THEN [ok |-> TRUE, state |-> "Loaded", reads |-> 0, attempts |-> 0]
    ELSE IF ls = "Failed" THEN [ok |-> FALSE, state |-> "Failed", reads |-> 0, attempts |-> 0]
    ELSE IF st = "reachable" THEN [ok |-> TRUE, state |-> "Loaded", reads |-> 1, attempts |-> 1]
    ELSE [ok |-> FALSE, state |-> "Failed", reads |-> 0, attempts |-> 1]

\* Scoped acquisition of both artifacts on first use: Unloaded -> Loaded when
\* storage can be read, Unloaded -> Unloaded (ArtifactLoadError) when not.
Acquire(ls, st) ==
    IF ls = "Loaded" THEN [ok |-> TRUE, state |-> "Loaded", reads |-> 0, attempts |-> 0]
    ELSE IF st = "reachable" THEN [ok |-> TRUE, state |-> "Loaded", reads |-> 1, attempts |-> 1]
    ELSE [ok |-> FALSE, state |-> "Unloaded", reads |-> 0, attempts |-> 1]

\* Inference Pipeline: predict(frame) acquires, encodes the one row, invokes
\* the model once and returns the raw output; the first failing step ends it.
predict(df, ls, st, pair) ==
    LET a == Acquire(ls, st)
        e == encode(df[1])
        base == [raised |-> NoError, pred |-> <<>>, state |-> a.state, reads |-> a.reads,
                 attempts |-> a.attempts, encodes |-> 0, invokes |-> 0]
    IN  IF ~a.ok THEN [base EXCEPT !.raised = ArtifactLoadError]
        ELSE IF ~e.ok THEN [base EXCEPT !.raised = e.err, !.encodes = 1]
        ELSE IF pair # "matched" THEN [base EXCEPT !.raised = InferenceError, !.encodes = 1, !.invokes = 1]
        ELSE [base EXCEPT !.pred = <<ModelArtifact(e.fv)>>, !.encodes = 1, !.invokes = 1]

\* ------------------------------------ service handlers: src/app/main.py

\* str(e) of a raised exception.
ExcText(e) == e.text

\* round(v, 2) of a value held in thousandths: the nearest hundredth, a tie
\* going to the even one.
Round2(milli) ==
    LET q == milli \div 10
        r == milli % 10
    IN  IF r > 5 THEN q + 1
        ELSE IF r < 5 THEN q
        ELSE IF q % 2 = 0 THEN q ELSE q + 1

\* A try block that calls the pipeline a second time when the first call raised.
CallPipeline_retry(body, ls, st, pair) ==
    LET first == predict(get_data_as_dataframe(CustomData(body)), ls, st, pair)
        again == predict(get_data_as_dataframe(CustomData(body)), first.state, st, pair)
    IN  IF first.raised = NoError THEN first
        ELSE [again EXCEPT !.reads = first.reads + again.reads,
                           !.attempts = first.attempts + again.attempts,
                           !.encodes = first.encodes + again.encodes,
                           !.invokes = first.invokes + again.invokes]

\* The try block of POST /predict up to the pipeline's answer: build the
\* record, make the frame, construct the pipeline and call predict once.
CallPipeline(body, ls, st, pair) ==
    LET data == CustomData(body)
        pred_df == get_data_as_dataframe(data)
    IN  predict(pred_df, ls, st, pair)

\* An except branch that answers with a default price.
Respond_default_price(body, out) ==
    IF out.raised = NoError
    THEN [status |-> "success", predicted_price |-> Round2(out.pred[1]), input_data |-> body]
    ELSE [status |-> "success", predicted_price |-> 0, input_data |-> body]

\* The body POST /predict returns: the success body, or for any exception
\* the error body whose message is "Prediction failed: " followed by str(e).
Respond(body, out) ==
    IF out.raised = NoError
    THEN [status |-> "success", predicted_price |-> Round2(out.pred[1]), input_data |-> body]
    ELSE [status |-> "error", message |-> <<"Prediction failed: ", ExcText(out.raised)>>]

\* ------------------------------------------ client: src/streamlit_app.py

ClientCutOptions == <<"Ideal", "Premium", "Very Good", "Good", "Fair">>

ClientColorOptions == <<"D", "E", "F", "G", "H", "I", "J">>

ClientClarityOptions == <<"IF", "VVS1", "VVS2", "VS1", "VS2", "SI1", "SI2", "I1">>

\* The sliders' initial values.
SliderDefaults == [carat |-> 10, depth |-> 625, table |-> 580, x |-> 57, y |-> 57, z |-> 35]

\* What the three select boxes hold when option i, j, k is chosen.
Selectboxes(i, j, k) == [cut |-> ClientCutOptions[i], color |-> ClientColorOptions[j], clarity |-> ClientClarityOptions[k]]

\* The widget states the button is pressed in: every box on its first option
\* (the initial state) and every box on its last option.
UiSelections ==
    {Selectboxes(1, 1, 1),
     Selectboxes(Len(ClientCutOptions), Len(ClientColorOptions), Len(ClientClarityOptions))}

\* The dictionary the button handler sends.
input_data(sel) ==
    [carat |-> SliderDefaults.carat, depth |-> SliderDefaults.depth, table |-> SliderDefaults.table,
     x |-> SliderDefaults.x, y |-> SliderDefaults.y, z |-> SliderDefaults.z,
     cut |-> sel.cut, color |-> sel.color, clarity |-> sel.clarity, nonfinite |-> {}]

\* The f-string's rendering of a status code.
StatusText(code) ==
    CASE code = 200 -> "200"
      [] code = 422 -> "422"
      [] code = 500 -> "500"
      [] code = 503 -> "503"

\* A client whose non-200 branch returns only the message.
ClientPredictPrice_no_status(o) ==
    IF o.kind = "exception" THEN [status |-> "error", message |-> <<"Connection error: ", o.text>>]
    ELSE IF o.status_code = 200 THEN o.json
    ELSE [message |-> <<"API Error: ", StatusText(o.status_code)>>]

\* The client's predict_price: the decoded body of a 200 response, an
\* "API Error" result for any other status, a "Connection error" result when
\* the request raised.
ClientPredictPrice(o) ==
    IF o.kind = "exception" THEN [status |-> "error", message |-> <<"Connection error: ", o.text>>]
    ELSE IF o.status_code = 200 THEN o.json
    ELSE [status |-> "error", message |-> <<"API Error: ", StatusText(o.status_code)>>]

\* The display step: reads status, then predicted_price or message; reading
\* a key the result does not hold raises KeyError.
Display(result) ==
    IF "status" \notin DOMAIN result THEN "KeyError"
    ELSE IF result.status = "success"
         THEN IF "predicted_price" \in DOMAIN result THEN "price" ELSE "KeyError"
         ELSE IF "message" \in DOMAIN result THEN "error" ELSE "KeyError"

\* How the request of one button press ended, as the client sees it.
OutcomeKind(o) ==
    IF o.kind = "exception" THEN "connection failure"
    ELSE IF o.status_code # 200 THEN "non-200"
    ELSE IF o.json.status = "success" THEN "200 success" ELSE "200 error"

\* ------------------------------------------------------------- inputs

\* Bodies sent straight to the API: the range extremes of carat, a value
\* outside each enumeration, a negative and a non-finite dimension.
ApiBodies ==
    {[ExampleBody EXCEPT !.carat = 2],
     [ExampleBody EXCEPT !.carat = 50],
     [ExampleBody EXCEPT !.cut = "Excellent"],
     [ExampleBody EXCEPT !.color = "K"],
     [ExampleBody EXCEPT !.clarity = "FL"],
     [ExampleBody EXCEPT !.x = -10],
     [ExampleBody EXCEPT !.nonfinite = {"x"}]}

\* -------------------------------------------------------------- state

Init ==
    /\ storage \in {"reachable", "unreachable"}
    /\ artifactPair \in {"matched", "mismatched"}
    /\ loadState = "Unloaded"
    /\ modelReads = 0
    /\ encoderReads = 0
    /\ acqAttempts = 0
    /\ pending = {}
    /\ nArrived = 0
    /\ served = {}
    /\ last = <<>>
    /\ waitingAtLoad = 0
    /\ optionsResp = <<>>
    /\ clientPc = "idle"
    /\ clientResult = <<>>
    /\ clientDisplay = "none"
    /\ clientPosts = 0
    /\ clientOutcome = "none"
    /\ reply = <<>>

\* Artifact storage becomes unreadable (file removed, volume lost).
StorageFails ==
    /\ storage = "reachable"
    /\ storage' = "unreachable"
    /\ UNCHANGED <<artifactPair, loadState, modelReads, encoderReads, acqAttempts, pending, nArrived, served, last, waitingAtLoad, waitingAtLoad, optionsResp, clientPc, clientResult, clientDisplay, clientPosts, clientOutcome, reply>>

\* Artifact storage is restored from outside.
StorageRestored ==
    /\ storage = "unreachable"
    /\ storage' = "reachable"
    /\ UNCHANGED <<artifactPair, loadState, modelReads, encoderReads, acqAttempts, pending, nArrived, served, last, waitingAtLoad, waitingAtLoad, optionsResp, clientPc, clientResult, clientDisplay, clientPosts, clientOutcome, reply>>

\* A caller other than the client posts a body; it waits for the event loop.
ApiArrive(b) ==
    /\ GemstoneData(b)
    /\ nArrived < MaxRequests
    /\ Cardinality(pending) < MaxPending
    /\ pending' = pending \cup {[origin |-> "api", body |-> b]}
    /\ nArrived' = nArrived + 1
    /\ UNCHANGED <<storage, artifactPair, loadState, modelReads, encoderReads, acqAttempts, served, last, waitingAtLoad, waitingAtLoad, optionsResp, clientPc, clientResult, clientDisplay, clientPosts, clientOutcome, reply>>

\* POST /predict: the coroutine has no await, so one request's handler runs
\* from its first line to its return before another's starts.
predict_price(p) ==
    LET out == CallPipeline(p.body, loadState, storage, artifactPair)
        resp == Respond(p.body, out)
        entry == [body |-> p.body, resp |-> resp, raised |-> out.raised.kind]
    IN  /\ p \in pending
        /\ pending' = pending \ {p}
        /\ loadState' = out.state
        /\ modelReads' = modelReads + out.reads
        /\ encoderReads' = encoderReads + out.reads
        /\ acqAttempts' = acqAttempts + out.attempts
        /\ served' = served \cup {entry}
        /\ last' = <<[body |-> p.body, resp |-> resp, raised |-> out.raised.kind,
                      encodes |-> out.encodes, invokes |-> out.invokes, attempts |-> out.attempts,
                      lsBefore |-> loadState, storageAt |-> storage,
                      repeat |-> \E e \in served : e.body = p.body /\ e.raised = "none"]>>
        /\ waitingAtLoad' = IF out.reads > 0 THEN Cardinality(pending) - 1 ELSE waitingAtLoad
        /\ reply' = IF p.origin = "ui" THEN <<[status_code |-> 200, json |-> resp]>> ELSE reply
        /\ UNCHANGED <<storage, artifactPair, nArrived, optionsResp, clientPc, clientResult, clientDisplay, clientPosts, clientOutcome>>

\* GET /options.
GetOptions ==
    /\ optionsResp' = <<get_options>>
    /\ UNCHANGED <<storage, artifactPair, loadState, modelReads, encoderReads, acqAttempts, pending, nArrived, served, last, waitingAtLoad, clientPc, clientResult, clientDisplay, clientPosts, clientOutcome, reply>>

\* The button is pressed and the one POST of this run reaches the server.
PressPredict(sel) ==
    /\ clientPc = "idle"
    /\ nArrived < MaxRequests
    /\ Cardinality(pending) < MaxPending
    /\ pending' = pending \cup {[origin |-> "ui", body |-> input_data(sel)]}
    /\ nArrived' = nArrived + 1
    /\ clientPc' = "posting"
    /\ clientPosts' = 1
    /\ clientDisplay' = "none"
    /\ UNCHANGED <<storage, artifactPair, loadState, modelReads, encoderReads, acqAttempts, served, last, waitingAtLoad, optionsResp, clientResult, clientOutcome, reply>>

\* The button is pressed and the POST raises (no connection).
PressPredictNoConnection ==
    LET o == [kind |-> "exception", text |-> "connection refused"]
    IN  /\ clientPc = "idle"
        /\ clientPc' = "got"
        /\ clientPosts' = 1
        /\ clientResult' = <<ClientPredictPrice(o)>>
        /\ clientOutcome' = OutcomeKind(o)
        /\ clientDisplay' = "none"
        /\ UNCHANGED <<storage, artifactPair, loadState, modelReads, encoderReads, acqAttempts, pending, nArrived, served, last, waitingAtLoad, optionsResp, reply>>

\* The hosting layer answers the client's request itself with a 503.
GatewayError ==
    /\ clientPc = "posting"
    /\ \E p \in pending :
          /\ p.origin = "ui"
          /\ pending' = pending \ {p}
    /\ reply' = <<[status_code |-> 503, json |-> [detail |-> "Service Unavailable"]]>>
    /\ UNCHANGED <<storage, artifactPair, loadState, modelReads, encoderReads, acqAttempts, nArrived, served, last, waitingAtLoad, optionsResp, clientPc, clientResult, clientDisplay, clientPosts, clientOutcome>>

\* requests.post returns; predict_price returns its result.
ClientReceive ==
    /\ clientPc = "posting"
    /\ reply # <<>>
    /\ LET o == [kind |-> "response", status_code |-> reply[1].status_code, json |-> reply[1].json]
       IN  /\ clientResult' = <<ClientPredictPrice(o)>>
           /\ clientOutcome' = OutcomeKind(o)
    /\ reply' = <<>>
    /\ clientPc' = "got"
    /\ UNCHANGED <<storage, artifactPair, loadState, modelReads, encoderReads, acqAttempts, pending, nArrived, served, last, waitingAtLoad, optionsResp, clientDisplay, clientPosts>>

\* The result is rendered and the run of the script ends.
ShowResult ==
    /\ clientPc = "got"
    /\ clientDisplay' = Display(clientResult[1])
    /\ clientPc' = "idle"
    /\ clientResult' = <<>>
    /\ clientPosts' = 0
    /\ clientOutcome' = "none"
    /\ UNCHANGED <<storage, artifactPair, loadState, modelReads, encoderReads, acqAttempts, pending, nArrived, served, last, waitingAtLoad, optionsResp, reply>>

Next ==
    \/ StorageFails
    \/ StorageRestored
    \/ \E b \in ApiBodies : ApiArrive(b)
    \/ \E p \in pending : predict_price(p)
    \/ GetOptions
    \/ \E sel \in UiSelections : PressPredict(sel)
    \/ PressPredictNoConnection
    \/ GatewayError
    \/ ClientReceive
    \/ ShowResult

Spec == Init /\ [][Next]_vars

\* ------------------------------------------------------------- claims

HasPrice(resp) == "predicted_price" \in DOMAIN resp

CaratExtreme(body) == body.carat \in {2, 50}

\* The call found the artifacts loaded, or storage readable to load them.
ArtifactsAvailable(e) == e.lsBefore = "Loaded" \/ e.storageAt = "reachable"

C3_NoPriceAfterError ==
    /\ \A e \in served : e.raised # "none" => ~HasPrice(e.resp) /\ e.resp.status = "error"
    /\ \A e \in served : HasPrice(e.resp) => e.raised = "none" /\ e.resp.status = "success"
    /\ \A i \in DOMAIN last :
          last[i].lsBefore = "Unloaded" /\ last[i].storageAt = "unreachable" => ~HasPrice(last[i].resp)

\* A request failed on unreachable storage and got no price; after storage
\* was restored the next one was answered with a price.
C3_Witness ==
    /\ \E e \in served : e.raised = "ArtifactLoadError" /\ ~HasPrice(e.resp) /\ e.resp.status = "error"
    /\ \E i \in DOMAIN last :
          /\ last[i].raised = "none"
          /\ last[i].lsBefore = "Unloaded"
          /\ HasPrice(last[i].resp)

\* C4: two failed requests of different classes (an input defect and a
\* system defect) get responses that differ in something other than the
\* message text.
C4_FailureClassVisible ==
    \A e1, e2 \in served :
        (e1.raised # "none" /\ e2.raised # "none" /\ ErrorClass(e1.raised) # ErrorClass(e2.raised)) =>
            \/ DOMAIN e1.resp # DOMAIN e2.resp
            \/ \E f \in DOMAIN e1.resp \ {"message"} : e1.resp[f] # e2.resp[f]

\* C5 as stated: a request with a value outside an enumeration fails with
\* UnknownCategoryError or InvalidInputError.
C5_AlwaysAnInputError ==
    \A e \in served : ~CategoriesKnown(e.body) => e.raised \in InputDefects /\ ~HasPrice(e.resp)

\* C5 as amended: a request whose cut, color or clarity is outside its
\* enumeration never yields a price; it fails with UnknownCategoryError or
\* InvalidInputError whenever the artifacts are loaded or can be acquired,
\* and with ArtifactLoadError when the acquisition fails.
C5_UnknownCategoryRejected ==
    /\ \A e \in served : ~CategoriesKnown(e.body) =>
          /\ ~HasPrice(e.resp)
          /\ e.resp.status = "error"
          /\ e.raised \in InputDefects \cup {"ArtifactLoadError"}
    /\ \A i \in DOMAIN last : ~CategoriesKnown(last[i].body) =>
          IF ArtifactsAvailable(last[i]) THEN last[i].raised \in InputDefects
          ELSE last[i].raised = "ArtifactLoadError"

\* cut = "Excellent" was refused by the encoder.
C5_Witness ==
    \E i \in DOMAIN last :
        /\ last[i].body.cut = "Excellent"
        /\ last[i].raised = "UnknownCategoryError"
        /\ last[i].encodes = 1
        /\ last[i].invokes = 0
        /\ ~HasPrice(last[i].resp)

C7_OptionSetsAgree ==
    /\ Range(get_options.cut) = Range(ClientCutOptions)
    /\ Range(get_options.color) = Range(ClientColorOptions)
    /\ Range(get_options.clarity) = Range(ClientClarityOptions)
    /\ \A i \in DOMAIN optionsResp : \A p \in pending : p.origin = "ui" =>
          /\ p.body.cut \in Range(optionsResp[i].cut)
          /\ p.body.color \in Range(optionsResp[i].color)
          /\ p.body.clarity \in Range(optionsResp[i].clarity)

\* The options were fetched and the client has submitted the last option of
\* each of its lists.
C7_Witness ==
    /\ optionsResp # <<>>
    /\ \E p \in pending :
          /\ p.origin = "ui"
          /\ p.body.cut = ClientCutOptions[Len(ClientCutOptions)]
          /\ p.body.color = ClientColorOptions[Len(ClientColorOptions)]
          /\ p.body.clarity = ClientClarityOptions[Len(ClientClarityOptions)]

C9_NoRetries ==
    /\ \A i \in DOMAIN last :
          /\ last[i].attempts <= 1
          /\ last[i].encodes <= 1
          /\ last[i].invokes <= 1
          /\ (last[i].raised = "ArtifactLoadError" => last[i].encodes = 0 /\ last[i].invokes = 0)
          /\ (last[i].raised \in InputDefects => last[i].encodes = 1 /\ last[i].invokes = 0)
          /\ (last[i].raised = "InferenceError" => last[i].encodes = 1 /\ last[i].invokes = 1)
    /\ clientPosts <= 1
    /\ (clientPc \in {"posting", "got"} => clientPosts = 1)

\* A request failed in the encoder after one encoding, and the client holds
\* an error result after its one post.
C9_Witness ==
    /\ \E i \in DOMAIN last :
          /\ last[i].raised = "UnknownCategoryError"
          /\ last[i].encodes = 1
          /\ last[i].invokes = 0
    /\ clientPc = "got"
    /\ clientOutcome = "non-200"
    /\ clientPosts = 1

\* C10: whatever the outcome of the client's request, the result of its
\* predict_price has status, has predicted_price when status is "success"
\* and message otherwise, and the display step raises no KeyError.
C10_ResultWellFormed ==
    /\ \A i \in DOMAIN clientResult :
          /\ "status" \in DOMAIN clientResult[i]
          /\ IF clientResult[i].status = "success"
             THEN "predicted_price" \in DOMAIN clientResult[i]
             ELSE "message" \in DOMAIN clientResult[i]
    /\ clientDisplay # "KeyError"

\* The service answered 200 with an error body and the client holds it.
C10_Witness ==
    /\ clientPc = "got"
    /\ clientOutcome = "200 error"
    /\ clientResult[1].status = "error"
    /\ "message" \in DOMAIN clientResult[1]

====
